---- MODULE Spec2Model ----
(***************************************************************************)
(* A model of src-tauri/src/lib.rs of neo: the workspace access grant      *)
(* (allow_workspace_dir) and the application icon pipeline (find_app_path, *)
(* get_app_icon).                                                          *)
(*                                                                         *)
(* Paths are records [abs, comps]: whether the path starts at the root and *)
(* the sequence of its components.  Strings that the icon pipeline builds  *)
(* are sequences of tokens (see the icon section).                         *)
(***************************************************************************)
EXTENDS Integers, Sequences, FiniteSets, TLC

VARIABLES
    fs,         \* the filesystem: node -> entry (none, dir, file, link)
    home,       \* the HOME environment variable
    rejected,   \* the canonical paths the permission registry refuses
    registry,   \* the permission registry: the directories allowed
    last,       \* the allow_workspace_dir call that returned last
    gth,        \* SpecGrantConc: each thread's position in allow_workspace_dir
    envChanges, \* SpecGrantConc: the changes of the environment so far
    tmpfiles,   \* the files of the temporary directory
    ith         \* each thread's position in get_app_icon, with its locals

grantVars == <<fs, home, rejected, registry, last, gth, envChanges>>
iconVars == <<tmpfiles, ith>>
vars == <<fs, home, rejected, registry, last, gth, envChanges, tmpfiles, ith>>

(***************************************************************************)
(* Bounds                                                                  *)
(***************************************************************************)
\* std::fs::canonicalize gives up (ELOOP) after this many symbolic links.
MaxHops == 3
\* SpecGrantConc: the filesystem and HOME change at most this often.
MaxEnvChanges == 2
\* The metadata search prints at most this many lines.
MaxLines == 2

(***************************************************************************)
(* The filesystem                                                          *)
(***************************************************************************)
Nodes == { <<"u">>, <<"u", "w">>, <<"v">> }

LinkTargets == { <<"u">>, <<"u", "w">>, <<"v">> }

NoneE == [kind |-> "none", target |-> <<>>]
DirE == [kind |-> "dir", target |-> <<>>]
FileE == [kind |-> "file", target |-> <<>>]
LinkE(t) == [kind |-> "link", target |-> t]

Entries == {NoneE, DirE, FileE} \cup { LinkE(t) : t \in LinkTargets }

\* The process's working directory, against which a relative path resolves.
Cwd == <<"u">>

Front(s) == SubSeq(s, 1, Len(s) - 1)

IsPrefix(a, b) == Len(a) <= Len(b) /\ SubSeq(b, 1, Len(a)) = a

\* What lstat finds at the absolute path p (the root is a directory).
Entry(f, p) ==
    IF p = <<>> THEN DirE
    ELSE IF p \in Nodes THEN f[p]
    ELSE NoneE

\* realpath: walk the components left to right from the resolved prefix
\* `done`, following symbolic links (absolute targets), at most `fuel` of them.
RECURSIVE Resolve(_, _, _, _)
Resolve(f, done, rest, fuel) ==
    IF rest = <<>> THEN [ok |-> TRUE, path |-> done]
    ELSE IF Head(rest) = ".."
    THEN Resolve(f, IF done = <<>> THEN <<>> ELSE Front(done), Tail(rest), fuel)
    ELSE LET next == Append(done, Head(rest))
             e == Entry(f, next)
         IN  CASE e.kind = "none" -> [ok |-> FALSE, path |-> <<>>]
               [] e.kind = "file" ->
                    IF Tail(rest) = <<>> THEN [ok |-> TRUE, path |-> next]
                    ELSE [ok |-> FALSE, path |-> <<>>]
               [] e.kind = "dir" -> Resolve(f, next, Tail(rest), fuel)
               [] OTHER ->
                    IF fuel = 0 THEN [ok |-> FALSE, path |-> <<>>]
                    ELSE Resolve(f, <<>>, e.target \o Tail(rest), fuel - 1)

Abs(c) == [abs |-> TRUE, comps |-> c]
Rel(c) == [abs |-> FALSE, comps |-> c]
EmptyPath == Rel(<<>>)

\* The components the kernel walks for p: a relative path starts at Cwd.
FromRoot(p) == (IF p.abs THEN <<>> ELSE Cwd) \o p.comps

\* PathBuf::canonicalize: the empty path does not resolve; a relative path
\* resolves against the working directory.  The result is absolute.
canonicalize(f, raw) ==
    LET r == Resolve(f, <<>>, FromRoot(raw), MaxHops)
    IN  IF (~raw.abs /\ raw.comps = <<>>) \/ ~r.ok
        THEN [ok |-> FALSE, path |-> EmptyPath]
        ELSE [ok |-> TRUE, path |-> Abs(r.path)]

\* Faulty variant: any existing path passes.
is_dir_exists(f, p) ==
    p # EmptyPath /\ Resolve(f, <<>>, FromRoot(p), MaxHops).ok
\* Path::is_dir: metadata() follows symbolic links; false when it fails.
is_dir(f, p) ==
    LET r == Resolve(f, <<>>, FromRoot(p), MaxHops)
    IN  /\ p # EmptyPath
        /\ r.ok
        /\ Entry(f, r.path).kind = "dir"

\* Path::components: the root directory is a component of its own.
Components(p) == (IF p.abs THEN <<"/">> ELSE <<>>) \o p.comps

\* Path::starts_with: a whole-component prefix.
starts_with(p, base) == IsPrefix(Components(base), Components(p))

(***************************************************************************)
(* HOME                                                                    *)
(***************************************************************************)
HomeUnset == [state |-> "unset", path |-> EmptyPath]
HomeNotUnicode == [state |-> "notunicode", path |-> EmptyPath]
HomeValue(p) == [state |-> "value", path |-> p]

\* The values of HOME: /u, /u/w, /v, the relative u, and the empty string.
HomePaths ==
    { Abs(<<"u">>), Abs(<<"u", "w">>), Abs(<<"v">>), Rel(<<"u">>), EmptyPath }

Homes == {HomeUnset, HomeNotUnicode} \cup { HomeValue(p) : p \in HomePaths }

\* Lines 38-43: env::var("HOME") is Err when the variable is unset or is not
\* valid Unicode, and then the containment check is skipped.
home_allows(h, canonical) ==
    h.state = "value" => starts_with(canonical, h.path)

(***************************************************************************)
(* The permission registry (the host's fs scope)                           *)
(***************************************************************************)
Grant(path) == [path |-> path, recursive |-> TRUE]

\* Faulty variant: a path already registered is refused.
allow_directory_no_duplicates(rej, reg, path) ==
    IF path \in rej \/ Grant(path) \in reg THEN [ok |-> FALSE, registry |-> reg]
    ELSE [ok |-> TRUE, registry |-> reg \cup {Grant(path)}]
\* Scope::allow_directory(path, true): the scope is a set of patterns; the
\* call fails for the paths the registry refuses, the same ones every time.
allow_directory(rej, reg, path) ==
    IF path \in rej THEN [ok |-> FALSE, registry |-> reg]
    ELSE [ok |-> TRUE, registry |-> reg \cup {Grant(path)}]

(***************************************************************************)
(* allow_workspace_dir                                                     *)
(***************************************************************************)
\* Lines 45-50, with the canonical path that passed the checks.
register(rej, reg, canonical) ==
    LET a == allow_directory(rej, reg, canonical)
    IN  IF a.ok THEN [result |-> "Ok", registry |-> a.registry]
        ELSE [result |-> "RegistrationFailed", registry |-> reg]

\* Faulty variants of the command: the path is used as given; the
\* containment check comes first; there is no containment check.
allow_workspace_dir_not_canonicalized(f, h, rej, reg, raw) ==
    IF ~is_dir(f, raw) THEN [result |-> "NotADirectory", registry |-> reg]
    ELSE IF ~home_allows(h, raw)
    THEN [result |-> "OutsideAllowedRoot", registry |-> reg]
    ELSE register(rej, reg, raw)
allow_workspace_dir_home_first(f, h, rej, reg, raw) ==
    LET c == canonicalize(f, raw)
    IN  IF ~c.ok THEN [result |-> "InvalidPath", registry |-> reg]
        ELSE IF ~home_allows(h, c.path)
        THEN [result |-> "OutsideAllowedRoot", registry |-> reg]
        ELSE IF ~is_dir(f, c.path)
        THEN [result |-> "NotADirectory", registry |-> reg]
        ELSE register(rej, reg, c.path)
allow_workspace_dir_no_containment(f, h, rej, reg, raw) ==
    LET c == canonicalize(f, raw)
    IN  IF ~c.ok THEN [result |-> "InvalidPath", registry |-> reg]
        ELSE IF ~is_dir(f, c.path)
        THEN [result |-> "NotADirectory", registry |-> reg]
        ELSE register(rej, reg, c.path)
\* Lines 27-51.
allow_workspace_dir(f, h, rej, reg, raw) ==
    LET c == canonicalize(f, raw)
    IN  IF ~c.ok THEN [result |-> "InvalidPath", registry |-> reg]
        ELSE IF ~is_dir(f, c.path)
        THEN [result |-> "NotADirectory", registry |-> reg]
        ELSE IF ~home_allows(h, c.path)
        THEN [result |-> "OutsideAllowedRoot", registry |-> reg]
        ELSE register(rej, reg, c.path)

\* The paths the command is called with: /, /u, /u/w, /v, /v/w, /u/w/..,
\* the relative w, and the empty string.
RawInputs ==
    { Abs(<<>>), Abs(<<"u">>), Abs(<<"u", "w">>), Abs(<<"v">>),
      Abs(<<"v", "w">>), Abs(<<"u", "w", "..">>), Rel(<<"w">>), EmptyPath }

(***************************************************************************)
(* Strings of the icon pipeline                                            *)
(*                                                                         *)
(* A string is the sequence of its tokens; the tokens are chosen so that   *)
(* no string of the model has two tokenisations, and concatenation,        *)
(* ends_with and replace act on the tokens as they act on the characters.  *)
(***************************************************************************)
\* str::ends_with
ends_with(s, suffix) ==
    /\ Len(suffix) <= Len(s)
    /\ SubSeq(s, Len(s) - Len(suffix) + 1, Len(s)) = suffix

Whitespace == {" ", "\n"}

\* str::trim: the leading and the trailing whitespace is dropped.
RECURSIVE trim_start(_)
trim_start(s) ==
    IF s # <<>> /\ Head(s) \in Whitespace THEN trim_start(Tail(s)) ELSE s

RECURSIVE trim_end(_)
trim_end(s) ==
    IF s # <<>> /\ s[Len(s)] \in Whitespace THEN trim_end(Front(s)) ELSE s

trim(s) == trim_end(trim_start(s))

\* Line 125: app_name.replace(' ', "_")
replace_spaces(s) == [i \in DOMAIN s |-> IF s[i] = " " THEN "_" ELSE s[i]]

AppNames == { <<"A", " ", "B">>, <<"A", "_", "B">>, <<"A", "B">> }

\* Line 124: std::env::temp_dir()
temp_dir == <<"/tmp">>

\* Faulty variant: one file name for every call.
tmp_png_shared(app_name) == temp_dir \o <<"/", "neo_icon_", ".png">>
\* Line 125: the temporary PNG of a call.
tmp_png(app_name) ==
    temp_dir \o <<"/", "neo_icon_">> \o replace_spaces(app_name) \o <<".png">>

TmpPaths == { tmp_png(n) : n \in AppNames }

Threads == {"t1", "t2"}

NoFile == [exists |-> FALSE, data |-> <<>>, writer |-> "none"]

(***************************************************************************)
(* base64::engine::general_purpose::STANDARD.encode                        *)
(***************************************************************************)
B64 ==
    << "A", "B", "C", "D", "E", "F", "G", "H", "I", "J", "K", "L", "M",
       "N", "O", "P", "Q", "R", "S", "T", "U", "V", "W", "X", "Y", "Z",
       "a", "b", "c", "d", "e", "f", "g", "h", "i", "j", "k", "l", "m",
       "n", "o", "p", "q", "r", "s", "t", "u", "v", "w", "x", "y", "z",
       "0", "1", "2", "3", "4", "5", "6", "7", "8", "9", "+", "/" >>

Sextet(n) == B64[n + 1]

RECURSIVE encode(_)
encode(bytes) ==
    IF bytes = <<>> THEN <<>>
    ELSE LET b1 == bytes[1]
             b2 == IF Len(bytes) >= 2 THEN bytes[2] ELSE 0
             b3 == IF Len(bytes) >= 3 THEN bytes[3] ELSE 0
             c1 == Sextet(b1 \div 4)
             c2 == Sextet((b1 % 4) * 16 + b2 \div 16)
             c3 == Sextet((b2 % 16) * 4 + b3 \div 64)
             c4 == Sextet(b3 % 64)
         IN  IF Len(bytes) = 1 THEN <<c1, c2, "=", "=">>
             ELSE IF Len(bytes) = 2 THEN <<c1, c2, c3, "=">>
             ELSE <<c1, c2, c3, c4>> \o encode(SubSeq(bytes, 4, Len(bytes)))

\* Line 149.
data_url(png_data) == <<"data:image/png;base64,">> \o encode(png_data)

\* The bytes the conversion utility writes: none, or the start of a PNG.
PngChoices == { <<>>, <<137, 80>>, <<137, 80, 78, 71>> }

(***************************************************************************)
(* Subprocesses                                                            *)
(***************************************************************************)
\* What Command::output() gave: whether the tool was invoked at all, whether
\* it could be spawned, its exit code and its standard output.
NotRun == [run |-> FALSE, spawned |-> FALSE, exit |-> 0, stdout |-> <<>>]
SpawnFailed == [run |-> TRUE, spawned |-> FALSE, exit |-> 0, stdout |-> <<>>]
Exited(code, out) == [run |-> TRUE, spawned |-> TRUE, exit |-> code, stdout |-> out]

ExitCodes == {0, 1}

\* The lines mdfind may print: two bundles, and a path inside a bundle.
MdfindLines ==
    { <<"/Applications/", "Found", ".app">>,
      <<"/Users/me/", "Found", ".app">>,
      <<"/Applications/", "Found", ".app", "/Contents">> }

RECURSIVE SeqsUpTo(_, _)
SeqsUpTo(S, n) ==
    IF n = 0 THEN { <<>> }
    ELSE LET shorter == SeqsUpTo(S, n - 1)
         IN  shorter \cup { Append(q, x) : q \in shorter, x \in S }

MdfindOutcomes ==
    {SpawnFailed} \cup
    { Exited(code, out) : code \in ExitCodes, out \in SeqsUpTo(MdfindLines, MaxLines) }

\* What `defaults read <plist> CFBundleIconFile` may print.
DefaultsStdouts ==
    { <<>>,
      <<"\n">>,
      <<"AppIcon", "\n">>,
      <<"icon", ".icns", "\n">>,
      <<".icns", "\n">>,
      <<" ", "icon", ".icns", ".bak", " ", "\n">> }

DefaultsOutcomes ==
    {SpawnFailed} \cup
    { Exited(code, out) : code \in ExitCodes, out \in DefaultsStdouts }

SipsOutcomes == {SpawnFailed} \cup { Exited(code, <<>>) : code \in ExitCodes }

(***************************************************************************)
(* find_app_path                                                           *)
(***************************************************************************)
\* Lines 64 and 76: stdout.lines().find(|l| l.ends_with(".app"))
RECURSIVE find_app_line(_)
find_app_line(lines) ==
    IF lines = <<>> THEN [found |-> FALSE, line |-> <<>>]
    ELSE IF ends_with(Head(lines), <<".app">>)
    THEN [found |-> TRUE, line |-> Head(lines)]
    ELSE find_app_line(Tail(lines))

\* Lines 62-67 and 74-79: a search that could not be spawned yields nothing;
\* the exit code is not looked at.
mdfind_hit(out) ==
    IF out.run /\ out.spawned THEN find_app_line(out.stdout)
    ELSE [found |-> FALSE, line |-> <<>>]

\* Faulty variant: the directories in the opposite order.
candidates_reversed(app_name) ==
    << <<"/System/Library/CoreServices/">> \o app_name \o <<".app">>,
       <<"/System/Applications/Utilities/">> \o app_name \o <<".app">>,
       <<"/System/Applications/">> \o app_name \o <<".app">>,
       <<"/Applications/">> \o app_name \o <<".app">> >>
\* Lines 82-87.
candidates(app_name) ==
    << <<"/Applications/">> \o app_name \o <<".app">>,
       <<"/System/Applications/">> \o app_name \o <<".app">>,
       <<"/System/Applications/Utilities/">> \o app_name \o <<".app">>,
       <<"/System/Library/CoreServices/">> \o app_name \o <<".app">> >>

\* The well-known directories, by their place in the list.
CandidateIndexes == DOMAIN candidates(<<>>)

\* Lines 88-90: the first candidate that exists.
RECURSIVE find_existing(_, _)
find_existing(cands, existing) ==
    IF cands = <<>> THEN [found |-> FALSE, line |-> <<>>]
    ELSE IF Head(cands) \in existing
    THEN [found |-> TRUE, line |-> Head(cands)]
    ELSE find_existing(Tail(cands), existing)

\* find_app_path, given what the two searches print and the paths that exist.
find_app_path(app_name, md1, md2, existing) ==
    LET h1 == mdfind_hit(md1)
        h2 == mdfind_hit(md2)
        h3 == find_existing(candidates(app_name), existing)
    IN  IF h1.found THEN [ok |-> TRUE, path |-> h1.line]
        ELSE IF h2.found THEN [ok |-> TRUE, path |-> h2.line]
        ELSE IF h3.found THEN [ok |-> TRUE, path |-> h3.line]
        ELSE [ok |-> FALSE, path |-> <<>>]

(***************************************************************************)
(* get_app_icon                                                            *)
(***************************************************************************)
NoResult == [kind |-> "none", value |-> <<>>]
Err(kind) == [kind |-> kind, value |-> <<>>]
Ok(value) == [kind |-> "Ok", value |-> value]

\* A thread outside get_app_icon, or at its start.
Fresh ==
    [pc |-> "idle", app_name |-> <<>>,
     md1 |-> NotRun, md2 |-> NotRun, probed |-> FALSE, existing |-> {},
     app_path |-> <<>>, defaults |-> NotRun, icon_name |-> <<>>,
     icns_path |-> <<>>, sips |-> NotRun, written |-> <<>>,
     png_data |-> <<>>, removed |-> FALSE, foreign |-> FALSE,
     invoked |-> <<>>, result |-> NoResult]

Returned(c, result) == [c EXCEPT !.pc = "returned", !.result = result]

\* Line 101: the searches that ran and the probes that were made are kept
\* until the next step, and dropped there as find_app_path's locals are.
find_step(name, md1, md2, probed, existing) ==
    LET r == find_app_path(name, md1, md2, existing)
        c == [Fresh EXCEPT !.app_name = name, !.md1 = md1, !.md2 = md2,
                           !.probed = probed, !.existing = existing,
                           !.invoked = IF md2.run THEN <<"mdfind", "mdfind">>
                                       ELSE <<"mdfind">>]
    IN  IF r.ok THEN [c EXCEPT !.pc = "plist", !.app_path = r.path]
        ELSE Returned(c, Err("AppNotFound"))

\* Faulty variant: no default name for an empty attribute.
icon_name_no_default(stdout) ==
    IF ends_with(trim(stdout), <<".icns">>) THEN trim(stdout)
    ELSE trim(stdout) \o <<".icns">>
\* Lines 110-116.
icon_name_of(stdout) ==
    LET name == IF trim(stdout) = <<>> THEN <<"AppIcon">> ELSE trim(stdout)
    IN  IF ends_with(name, <<".icns">>) THEN name ELSE name \o <<".icns">>

\* Lines 104-118.
plist_step(c, out) ==
    LET d == [c EXCEPT !.md1 = NotRun, !.md2 = NotRun,
                       !.probed = FALSE, !.existing = {}, !.defaults = out,
                       !.invoked = Append(c.invoked, "defaults")]
    IN  IF ~out.spawned THEN Returned(d, Err("PlistReadError"))
        ELSE [d EXCEPT !.pc = "check",
                       !.icon_name = icon_name_of(out.stdout),
                       !.icns_path = c.app_path \o <<"/Contents/Resources/">>
                                        \o icon_name_of(out.stdout)]

\* Lines 119-121.
check_step(c, exists) ==
    IF exists THEN [c EXCEPT !.pc = "sips"]
    ELSE Returned(c, Err("IconNotFound"))

\* Faulty variant: the exit code is not looked at.
sips_step_ignores_exit(c, files, t, out, png) ==
    LET path == tmp_png(c.app_name)
        d == [c EXCEPT !.sips = out, !.invoked = Append(c.invoked, "sips")]
    IN  IF ~out.spawned
        THEN [c |-> Returned(d, Err("ConversionFailed")), files |-> files]
        ELSE [c |-> [d EXCEPT !.pc = "read", !.written = png],
              files |-> [files EXCEPT ![path] =
                            [exists |-> TRUE, data |-> png, writer |-> t]]]
\* Lines 127-143: the conversion utility writes the PNG when it succeeds.
sips_step(c, files, t, out, png) ==
    LET path == tmp_png(c.app_name)
        old == files[path]
        d == [c EXCEPT !.sips = out, !.invoked = Append(c.invoked, "sips")]
    IN  IF ~out.spawned \/ out.exit # 0
        THEN [c |-> Returned(d, Err("ConversionFailed")), files |-> files]
        ELSE [c |-> [d EXCEPT !.pc = "read", !.written = png,
                              !.foreign = c.foreign \/
                                  (old.exists /\ old.writer # t)],
              files |-> [files EXCEPT ![path] =
                            [exists |-> TRUE, data |-> png, writer |-> t]]]

\* Line 145.
read_step(c, files, t) ==
    LET file == files[tmp_png(c.app_name)]
    IN  IF ~file.exists
        THEN Returned([c EXCEPT !.foreign = TRUE], Err("ReadFailed"))
        ELSE [c EXCEPT !.pc = "remove", !.png_data = file.data,
                       !.foreign = c.foreign \/ file.writer # t]

\* Faulty variant: the file is never removed.
remove_file_keeps(files, path, ok) == files
\* std::fs::remove_file: the file is gone when the call succeeds.
remove_file(files, path, ok) ==
    IF ok /\ files[path].exists THEN [files EXCEPT ![path] = NoFile]
    ELSE files

\* Lines 146-149: the result of the removal is dropped.
remove_step(c, files, t, ok) ==
    LET path == tmp_png(c.app_name)
        file == files[path]
    IN  [c |-> Returned([c EXCEPT !.removed = ok /\ file.exists,
                                  !.foreign = c.foreign \/
                                      (ok /\ file.exists /\ file.writer # t)],
                        Ok(data_url(c.png_data))),
         files |-> remove_file(files, path, ok)]

NoCall == [called |-> FALSE, raw |-> EmptyPath, result |-> "none",
           before |-> {}, repeat |-> FALSE]

InitFs == [n \in Nodes |-> IF n = <<"v">> THEN FileE ELSE DirE]

\* The registry refuses nothing, or refuses /u/w.
RejectedChoices == { {}, {Abs(<<"u", "w">>)} }

Idle == [pc |-> "idle", canonical |-> EmptyPath, result |-> "none",
         wasCanonical |-> FALSE, wasDir |-> FALSE,
         homeSet |-> FALSE, underHome |-> FALSE]

GrantInit ==
    /\ fs = InitFs
    /\ home = HomeValue(Abs(<<"u">>))
    /\ rejected \in RejectedChoices
    /\ registry = {}
    /\ last = NoCall
    /\ gth = [t \in Threads |-> Idle]
    /\ envChanges = 0
    /\ tmpfiles = [p \in TmpPaths |-> NoFile]
    /\ ith = [t \in Threads |-> Fresh]

\* Another process (or the user) changes one node of the filesystem: a
\* node below /u exists only while /u is a directory.
ChangeNode(n, e) ==
    /\ fs[n] # e
    /\ Len(n) = 2 => fs[Front(n)].kind = "dir"
    /\ (Len(n) = 1 /\ e.kind # "dir") =>
          \A c \in Nodes : (Len(c) = 2 /\ Front(c) = n) => fs[c].kind = "none"
    /\ fs' = [fs EXCEPT ![n] = e]

FsChange(n, e) ==
    /\ ChangeNode(n, e)
    /\ last' = NoCall
    /\ UNCHANGED <<home, rejected, registry, gth, envChanges, iconVars>>

\* The process's environment is changed (std::env::set_var, or the launcher).
SetHome(h) ==
    /\ home # h
    /\ home' = h
    /\ last' = NoCall
    /\ UNCHANGED <<fs, rejected, registry, gth, envChanges, iconVars>>

\* One whole call of the command.  `repeat` says that the call before it,
\* with no change of the filesystem or of HOME in between, succeeded on the
\* same directory.
AllowWorkspaceDir(raw) ==
    LET r == allow_workspace_dir(fs, home, rejected, registry, raw)
    IN  /\ registry' = r.registry
        /\ last' = [called |-> TRUE, raw |-> raw, result |-> r.result,
                    before |-> registry,
                    repeat |-> /\ last.called
                               /\ last.result = "Ok"
                               /\ canonicalize(fs, last.raw) = canonicalize(fs, raw)]
        /\ UNCHANGED <<fs, home, rejected, gth, envChanges, iconVars>>

GrantNext ==
    \/ \E n \in Nodes, e \in Entries : FsChange(n, e)
    \/ \E h \in Homes : SetHome(h)
    \/ \E raw \in RawInputs : AllowWorkspaceDir(raw)

SpecGrant == GrantInit /\ [][GrantNext]_vars

(***************************************************************************)
(* Claims about allow_workspace_dir, under SpecGrant                       *)
(***************************************************************************)
\* The canonical form of the path the last call was given.
LastCanonical == canonicalize(fs, last.raw)

\* The last call was given an existing directory.
LastIsDirectory == LastCanonical.ok /\ is_dir(fs, LastCanonical.path)

\* p is the root r or a descendant of it.
UnderRoot(p, r) == p.abs /\ r.abs /\ IsPrefix(r.comps, p.comps)

\* C1 as stated: with HOME set to R, a call on an existing directory D
\* fails with OutsideAllowedRoot and registers nothing when D's canonical
\* path is not R or a descendant of R, and otherwise succeeds with D's
\* canonical path registered recursively.
C1AsStated ==
    (last.called /\ home.state = "value" /\ LastIsDirectory) =>
        IF UnderRoot(LastCanonical.path, home.path)
        THEN /\ last.result = "Ok"
             /\ Grant(LastCanonical.path) \in registry
        ELSE /\ last.result = "OutsideAllowedRoot"
             /\ registry = last.before

\* C1 amended: with HOME set to a Unicode value R, a call on an existing
\* directory D fails with OutsideAllowedRoot and registers nothing when D's
\* canonical path does not start, component by component, with R (every
\* path starts with the empty R); otherwise it either succeeds with D's
\* canonical path registered recursively, or the registry refuses the path
\* and the call fails with RegistrationFailed and registers nothing.
C1Containment ==
    (last.called /\ home.state = "value" /\ LastIsDirectory) =>
        IF starts_with(LastCanonical.path, home.path)
        THEN \/ /\ last.result = "Ok"
                /\ registry = last.before \cup {Grant(LastCanonical.path)}
             \/ /\ last.result = "RegistrationFailed"
                /\ LastCanonical.path \in rejected
                /\ registry = last.before
        ELSE /\ last.result = "OutsideAllowedRoot"
             /\ registry = last.before

\* A call through a symbolic link outside HOME to a directory under HOME
\* has succeeded and registered the directory, not the link.
C1Witness ==
    /\ last.called /\ last.result = "Ok"
    /\ home = HomeValue(Abs(<<"u">>))
    /\ last.raw = Abs(<<"v">>)
    /\ LastCanonical.path = Abs(<<"u", "w">>)
    /\ Grant(Abs(<<"u", "w">>)) \in registry
    /\ Grant(Abs(<<"v">>)) \notin registry

\* C2: a call on a path that does not exist or cannot be canonicalized
\* returns InvalidPath, whatever HOME is, and leaves the registry unchanged.
C2InvalidPath ==
    (last.called /\ ~LastCanonical.ok) =>
        /\ last.result = "InvalidPath"
        /\ registry = last.before

\* A dangling symbolic link was refused while HOME was set and the registry
\* held a grant.
C2Witness ==
    /\ last.called /\ last.result = "InvalidPath"
    /\ fs[<<"v">>].kind = "link"
    /\ last.raw = Abs(<<"v">>)
    /\ home.state = "value"
    /\ registry # {}

\* C3: a call on an existing path whose canonical form is not a directory
\* returns NotADirectory, also when the path lies outside HOME, and leaves
\* the registry unchanged.
C3NotADirectory ==
    (last.called /\ LastCanonical.ok /\ ~is_dir(fs, LastCanonical.path)) =>
        /\ last.result = "NotADirectory"
        /\ registry = last.before

\* A file outside HOME was refused as not a directory.
C3Witness ==
    /\ last.called /\ last.result = "NotADirectory"
    /\ home.state = "value"
    /\ ~starts_with(LastCanonical.path, home.path)
    /\ registry # {}

\* C4: a call that succeeded on a directory, repeated on the same directory
\* with the filesystem and HOME unchanged, succeeds again and leaves the set
\* of allowed directories as the first call left it.
C4Idempotent ==
    last.repeat =>
        /\ last.result = "Ok"
        /\ registry = last.before

\* The second of two calls on the same directory has succeeded.
C4Witness ==
    /\ last.repeat
    /\ last.result = "Ok"
    /\ Grant(LastCanonical.path) \in last.before

(***************************************************************************)
(* allow_workspace_dir step by step: two calls at once, with the           *)
(* filesystem and HOME changing between the steps of a call                *)
(***************************************************************************)
\* No component of the absolute path p is a symbolic link or "..": every
\* component but the last is a directory and the last one exists.
SymlinkFree(f, p) ==
    /\ p.abs
    /\ \A i \in 1..Len(p.comps) :
          /\ p.comps[i] # ".."
          /\ Entry(f, SubSeq(p.comps, 1, i)).kind \in
                (IF i < Len(p.comps) THEN {"dir"} ELSE {"dir", "file"})

\* stat(p) finds a directory.
IsDirectory(f, p) ==
    LET r == Resolve(f, <<>>, FromRoot(p), MaxHops)
    IN  p # EmptyPath /\ r.ok /\ Entry(f, r.path).kind = "dir"

Return(t, result) == [gth EXCEPT ![t] = [Idle EXCEPT !.result = result]]

\* Lines 28-31.
GCanonicalize(t, raw) ==
    /\ gth[t].pc = "idle"
    /\ LET c == canonicalize(fs, raw)
       IN  gth' = IF ~c.ok THEN Return(t, "InvalidPath")
                  ELSE [gth EXCEPT ![t] =
                          [Idle EXCEPT !.pc = "is_dir", !.canonical = c.path,
                                       !.wasCanonical = SymlinkFree(fs, c.path)]]
    /\ UNCHANGED <<fs, home, rejected, registry, last, envChanges, iconVars>>

\* Lines 33-35.
GIsDir(t) ==
    /\ gth[t].pc = "is_dir"
    /\ gth' = IF ~is_dir(fs, gth[t].canonical) THEN Return(t, "NotADirectory")
              ELSE [gth EXCEPT ![t].pc = "home",
                               ![t].wasDir = IsDirectory(fs, gth[t].canonical)]
    /\ UNCHANGED <<fs, home, rejected, registry, last, envChanges, iconVars>>

\* Lines 38-43.
GHome(t) ==
    /\ gth[t].pc = "home"
    /\ gth' = IF ~home_allows(home, gth[t].canonical)
              THEN Return(t, "OutsideAllowedRoot")
              ELSE [gth EXCEPT ![t].pc = "allow",
                               ![t].homeSet = (home.state = "value"),
                               ![t].underHome =
                                   IsPrefix(Components(home.path),
                                            Components(gth[t].canonical))]
    /\ UNCHANGED <<fs, home, rejected, registry, last, envChanges, iconVars>>

\* Lines 45-50.
GRegister(t) ==
    /\ gth[t].pc = "allow"
    /\ LET r == register(rejected, registry, gth[t].canonical)
       IN  /\ registry' = r.registry
           /\ gth' = Return(t, r.result)
    /\ UNCHANGED <<fs, home, rejected, last, envChanges, iconVars>>

GFsChange(n, e) ==
    /\ envChanges < MaxEnvChanges
    /\ ChangeNode(n, e)
    /\ envChanges' = envChanges + 1
    /\ UNCHANGED <<home, rejected, registry, last, gth, iconVars>>

GSetHome(h) ==
    /\ envChanges < MaxEnvChanges
    /\ home # h
    /\ home' = h
    /\ envChanges' = envChanges + 1
    /\ UNCHANGED <<fs, rejected, registry, last, gth, iconVars>>

GrantConcNext ==
    \/ \E t \in Threads, raw \in RawInputs : GCanonicalize(t, raw)
    \/ \E t \in Threads : GIsDir(t)
    \/ \E t \in Threads : GHome(t)
    \/ \E t \in Threads : GRegister(t)
    \/ \E n \in Nodes, e \in Entries : GFsChange(n, e)
    \/ \E h \in Homes : GSetHome(h)

SpecGrantConc == GrantInit /\ [][GrantConcNext]_vars

IconInit ==
    /\ fs = InitFs
    /\ home = HomeValue(Abs(<<"u">>))
    /\ rejected = {}
    /\ registry = {}
    /\ last = NoCall
    /\ gth = [t \in Threads |-> Idle]
    /\ envChanges = 0
    /\ tmpfiles = [p \in TmpPaths |-> NoFile]
    /\ ith = [t \in Threads |-> Fresh]

\* Line 98: the command is called.
ICall(t, name) ==
    /\ ith[t].pc \in {"idle", "returned"}
    /\ ith' = [ith EXCEPT ![t] = [Fresh EXCEPT !.pc = "find", !.app_name = name]]
    /\ UNCHANGED <<grantVars, tmpfiles>>

\* What the second search may give after the first: it runs only when the
\* first yields no match.
SecondSearch(md1) ==
    IF mdfind_hit(md1).found THEN {NotRun} ELSE MdfindOutcomes

\* The well-known directories that may hold the bundle: they are probed
\* only when neither search yields a match.
Probes(md1, md2) ==
    IF mdfind_hit(md1).found \/ mdfind_hit(md2).found THEN { {} }
    ELSE SUBSET CandidateIndexes

\* Line 101.
IFind(t, md1, md2, where) ==
    /\ ith[t].pc = "find"
    /\ ith' = [ith EXCEPT ![t] =
                 find_step(ith[t].app_name, md1, md2,
                           ~mdfind_hit(md1).found /\ ~mdfind_hit(md2).found,
                           { candidates(ith[t].app_name)[i] : i \in where })]
    /\ UNCHANGED <<grantVars, tmpfiles>>

\* Lines 104-118.
IReadPlist(t, out) ==
    /\ ith[t].pc = "plist"
    /\ ith' = [ith EXCEPT ![t] = plist_step(ith[t], out)]
    /\ UNCHANGED <<grantVars, tmpfiles>>

\* Lines 119-121.
ICheck(t, exists) ==
    /\ ith[t].pc = "check"
    /\ ith' = [ith EXCEPT ![t] = check_step(ith[t], exists)]
    /\ UNCHANGED <<grantVars, tmpfiles>>

\* Lines 124-143.
ISips(t, out, png) ==
    /\ ith[t].pc = "sips"
    /\ LET r == sips_step(ith[t], tmpfiles, t, out, png)
       IN  /\ ith' = [ith EXCEPT ![t] = r.c]
           /\ tmpfiles' = r.files
    /\ UNCHANGED grantVars

\* Line 145.
IRead(t) ==
    /\ ith[t].pc = "read"
    /\ ith' = [ith EXCEPT ![t] = read_step(ith[t], tmpfiles, t)]
    /\ UNCHANGED <<grantVars, tmpfiles>>

\* Lines 146-149.
IRemove(t, ok) ==
    /\ ith[t].pc = "remove"
    /\ LET r == remove_step(ith[t], tmpfiles, t, ok)
       IN  /\ ith' = [ith EXCEPT ![t] = r.c]
           /\ tmpfiles' = r.files
    /\ UNCHANGED grantVars

IconNext ==
    \/ \E name \in AppNames : ICall("t1", name)
    \/ \E md1 \in MdfindOutcomes : \E md2 \in SecondSearch(md1) :
          \E where \in Probes(md1, md2) : IFind("t1", md1, md2, where)
    \/ \E out \in DefaultsOutcomes : IReadPlist("t1", out)
    \/ \E exists \in BOOLEAN : ICheck("t1", exists)
    \/ \E out \in SipsOutcomes, png \in PngChoices : ISips("t1", out, png)
    \/ IRead("t1")
    \/ \E ok \in BOOLEAN : IRemove("t1", ok)

SpecIcon == IconInit /\ [][IconNext]_vars

(***************************************************************************)
(* Claims about get_app_icon, under SpecIcon                               *)
(***************************************************************************)
\* The call of thread t1: the one SpecIcon follows.
call == ith["t1"]

Succeeded == call.pc = "returned" /\ call.result.kind = "Ok"

\* C5 as stated: every call that returns success returns a string that
\* begins with data:image/png;base64, and its temporary PNG,
\* neo_icon_<sanitized name>.png in the temporary directory, no longer exists.
C5AsStated ==
    Succeeded =>
        /\ Head(call.result.value) = "data:image/png;base64,"
        /\ ~tmpfiles[tmp_png(call.app_name)].exists

\* C5 amended: every call that returns success returns a string that begins
\* with data:image/png;base64, and its temporary PNG no longer exists once
\* it has returned if the removal succeeded; a removal that fails is ignored,
\* the call succeeds all the same, and with no other call sharing the file
\* the file stays on disk.
C5DataUrlAndCleanup ==
    Succeeded =>
        /\ Head(call.result.value) = "data:image/png;base64,"
        /\ tmpfiles[tmp_png(call.app_name)].exists <=> ~call.removed

\* A call whose name has a space has returned a data URL with a payload and
\* removed neo_icon_A_B.png.
C5Witness ==
    /\ Succeeded
    /\ call.app_name = <<"A", " ", "B">>
    /\ call.removed
    /\ Len(call.result.value) > 1
    /\ ~tmpfiles[<<"/tmp", "/", "neo_icon_", "A", "_", "B", ".png">>].exists

\* The icon-file attribute the property-list reader printed: its output
\* between the first and the last token that is not whitespace.
Attribute(stdout) ==
    LET solid == { i \in DOMAIN stdout : stdout[i] \notin Whitespace }
        first == CHOOSE i \in solid : \A j \in solid : i <= j
        final == CHOOSE i \in solid : \A j \in solid : j <= i
    IN  IF solid = {} THEN <<>> ELSE SubSeq(stdout, first, final)

\* C6: when the property-list reader ran, the icon name is AppIcon.icns for
\* an empty attribute, the attribute itself when it ends in .icns, and the
\* attribute with .icns appended once otherwise; the call has gone on to the
\* check of <bundle>/Contents/Resources/<icon name> and has not failed with
\* PlistReadError.
C6IconName ==
    (call.defaults.run /\ call.defaults.spawned) =>
        LET attr == Attribute(call.defaults.stdout)
        IN  /\ call.pc \in {"check", "sips", "read", "remove", "returned"}
            /\ call.result.kind # "PlistReadError"
            /\ attr = <<>> => call.icon_name = <<"AppIcon", ".icns">>
            /\ (attr # <<>> /\ attr[Len(attr)] = ".icns") => call.icon_name = attr
            /\ (attr # <<>> /\ attr[Len(attr)] # ".icns") =>
                  call.icon_name = Append(attr, ".icns")
            /\ call.icns_path =
                  call.app_path \o <<"/Contents/Resources/">> \o call.icon_name

\* The attribute was empty and the call went on to convert AppIcon.icns.
C6Witness ==
    /\ call.defaults.spawned
    /\ Attribute(call.defaults.stdout) = <<>>
    /\ call.pc = "read"
    /\ call.icon_name = <<"AppIcon", ".icns">>

\* The lines of a search's output that end in .app.
AppLines(out) ==
    IF out.run /\ out.spawned
    THEN { i \in DOMAIN out.stdout :
              LET l == out.stdout[i] IN l # <<>> /\ l[Len(l)] = ".app" }
    ELSE {}

FirstAppLine(out) ==
    out.stdout[CHOOSE i \in AppLines(out) : \A j \in AppLines(out) : i <= j]

WellKnown ==
    << "/Applications/", "/System/Applications/",
       "/System/Applications/Utilities/", "/System/Library/CoreServices/" >>

WellKnownPath(i, name) == <<WellKnown[i]>> \o name \o <<".app">>

\* The well-known directories in which the bundle of the call exists.
Present == { i \in DOMAIN WellKnown : WellKnownPath(i, call.app_name) \in call.existing }

\* C7: find_app_path returns the first line ending in .app of the
\* display-name search; else the first such line of the filesystem-name
\* search; else the first existing well-known path, in the order
\* /Applications, /System/Applications, /System/Applications/Utilities,
\* /System/Library/CoreServices; a later source is used only when every
\* earlier one yielded no match; with no match the result is AppNotFound.
C7FindOrder ==
    call.md1.run =>
        IF AppLines(call.md1) # {}
        THEN /\ call.pc = "plist"
             /\ call.app_path = FirstAppLine(call.md1)
             /\ ~call.md2.run /\ ~call.probed
        ELSE IF AppLines(call.md2) # {}
        THEN /\ call.pc = "plist"
             /\ call.app_path = FirstAppLine(call.md2)
             /\ call.md2.run /\ ~call.probed
        ELSE IF Present # {}
        THEN /\ call.pc = "plist"
             /\ call.md2.run /\ call.probed
             /\ \E i \in Present :
                   /\ \A j \in Present : i <= j
                   /\ call.app_path = WellKnownPath(i, call.app_name)
        ELSE /\ call.pc = "returned"
             /\ call.result = Err("AppNotFound")
             /\ call.md2.run /\ call.probed

\* Neither search matched, the bundle is in two well-known directories, and
\* the one in /System/Applications was taken.
C7Witness ==
    /\ call.pc = "plist"
    /\ call.probed
    /\ Present = {2, 4}
    /\ call.app_path = <<"/System/Applications/">> \o call.app_name \o <<".app">>

Failed(out) == out.run /\ (~out.spawned \/ out.exit # 0)

PreludeInputs ==
    { [md1 |-> Exited(0, << <<"/Applications/", "Found", ".app">> >>),
       md2 |-> NotRun, where |-> {},
       defaults |-> Exited(0, <<"AppIcon", "\n">>), exists |-> TRUE],
      [md1 |-> SpawnFailed, md2 |-> SpawnFailed, where |-> {1},
       defaults |-> Exited(1, <<>>), exists |-> TRUE],
      [md1 |-> Exited(0, <<>>), md2 |-> Exited(0, <<>>), where |-> {},
       defaults |-> NotRun, exists |-> FALSE],
      [md1 |-> Exited(0, << <<"/Applications/", "Found", ".app">> >>),
       md2 |-> NotRun, where |-> {},
       defaults |-> Exited(0, <<"AppIcon", "\n">>), exists |-> FALSE] }

\* Lines 101-121: the steps of a call that touch nothing shared.
prelude(name, in) ==
    LET found == find_step(name, in.md1, in.md2,
                           ~mdfind_hit(in.md1).found /\ ~mdfind_hit(in.md2).found,
                           { candidates(name)[i] : i \in in.where })
        read == IF found.pc = "plist" THEN plist_step(found, in.defaults) ELSE found
    IN  IF read.pc = "check" THEN check_step(read, in.exists) ELSE read

\* Each thread makes one call.
CPrelude(t, name, in) ==
    /\ ith[t].pc = "idle"
    /\ ith' = [ith EXCEPT ![t] = prelude(name, in)]
    /\ UNCHANGED <<grantVars, tmpfiles>>

IconConcNext ==
    \/ \E t \in Threads, name \in AppNames, in \in PreludeInputs :
          CPrelude(t, name, in)
    \/ \E t \in Threads, out \in SipsOutcomes, png \in PngChoices :
          ISips(t, out, png)
    \/ \E t \in Threads : IRead(t)
    \/ \E t \in Threads, ok \in BOOLEAN : IRemove(t, ok)

SpecIconConc == IconInit /\ [][IconConcNext]_vars

\* Thread t's call was left alone: it overwrote, read and removed no file
\* another call had written, its read did not fail, and what it returned is
\* the data URL of what its own conversion wrote.
Undisturbed(t) ==
    /\ ~ith[t].foreign
    /\ (ith[t].pc = "returned" /\ ith[t].sips.run /\ ~Failed(ith[t].sips)) =>
          ith[t].result = Ok(<<"data:image/png;base64,">> \o encode(ith[t].written))

BothCalled == \A t \in Threads : ith[t].pc # "idle"

\* C9 as stated: two calls with different app names never use the same
\* temporary file, and neither reads, overwrites or removes the other's
\* file or changes the other's result.
C9AsStated ==
    (BothCalled /\ ith["t1"].app_name # ith["t2"].app_name) =>
        \A t \in Threads : Undisturbed(t)

\* C9 amended: two calls whose app names differ after their spaces are
\* replaced by underscores never use the same temporary file, and neither
\* reads, overwrites or removes the other's file or changes the other's
\* result; names that differ only in a space against an underscore share
\* the file.
C9DistinctTempFiles ==
    (BothCalled /\ replace_spaces(ith["t1"].app_name) # replace_spaces(ith["t2"].app_name)) =>
        /\ tmp_png(ith["t1"].app_name) # tmp_png(ith["t2"].app_name)
        /\ \A t \in Threads : Undisturbed(t)

\* Both calls have converted and read, each its own file, and both files
\* are on disk.
C9Witness ==
    /\ \A t \in Threads : ith[t].pc = "remove"
    /\ replace_spaces(ith["t1"].app_name) # replace_spaces(ith["t2"].app_name)
    /\ \A t \in Threads : tmpfiles[tmp_png(ith[t].app_name)].writer = t
    /\ ith["t1"].png_data # ith["t2"].png_data

====
